---------------------------- MODULE Spec2Model ----------------------------
(***************************************************************************)
(* A model of catts-cli (src/src/catts.ts): the `run` command pipeline and *)
(* runProcessor, which evaluates the user's processor script in a QuickJS  *)
(* context (quickjs-emscripten) against the fetched query results.         *)
(*                                                                         *)
(* JavaScript values are records [t, n, s, k]: a tag, a number, a string   *)
(* and a sequence of children, so that any two values can be compared.     *)
(* JSON text is a sequence of tokens, which are values too.                *)
(***************************************************************************)
EXTENDS Integers, Sequences, FiniteSets, TLC

(***************************************************************************)
(* Bounds of the model.                                                    *)
(***************************************************************************)
\* queries of the recipe (recipe.queries.length)
NumQueries == 2
\* console.log calls a script makes
MaxLogs == 2
\* calls of runProcessor the callers make in SpecConc
MaxCalls == 3

(***************************************************************************)
(* JavaScript values.                                                      *)
(***************************************************************************)
Val(t, n, s, k) == [t |-> t, n |-> n, s |-> s, k |-> k]
Undef == Val("undef", 0, "", <<>>)
Null == Val("null", 0, "", <<>>)
NaN == Val("nan", 0, "", <<>>)
Bool(b) == Val("bool", IF b THEN 1 ELSE 0, "", <<>>)
Num(i) == Val("num", i, "", <<>>)
Str(s) == Val("str", 0, s, <<>>)
Arr(items) == Val("arr", 0, "", items)
\* an object member: key s, value k[1]
KV(key, v) == Val("kv", 0, key, <<v>>)
Obj(members) == Val("obj", 0, "", members)
\* an Error instance: name and message are not enumerable
Err(name, msg) == Val("err", 0, name, <<Str(msg)>>)
\* an object that refers to itself
Cyc == Val("cyc", 0, "", <<>>)
\* a function value
Fn(name) == Val("fn", 0, name, <<>>)

\* Values JSON represents exactly: null, booleans, finite numbers, strings, and
\* arrays and objects of them.
RECURSIVE JsonRepresentable(_)
JsonRepresentable(v) ==
    CASE v.t \in {"null", "bool", "num", "str"} -> TRUE
      [] v.t = "arr" -> \A i \in 1..Len(v.k) : JsonRepresentable(v.k[i])
      [] v.t = "obj" -> \A i \in 1..Len(v.k) : JsonRepresentable(v.k[i].k[1])
      [] OTHER -> FALSE

(***************************************************************************)
(* JSON text: tokens.                                                      *)
(***************************************************************************)
\* a punctuation mark or a literal name, a number, a string
P(s) == Val("p", 0, s, <<>>)
TNum(i) == Val("n", i, "", <<>>)
TStr(s) == Val("s", 0, s, <<>>)
\* a JavaScript string that holds JSON text
JText(toks) == Val("text", 0, "", toks)

RECURSIVE Join(_)
\* the texts of ss separated by commas
Join(ss) ==
    IF ss = <<>> THEN <<>>
    ELSE IF Len(ss) = 1 THEN ss[1]
    ELSE ss[1] \o <<P(",")>> \o Join(Tail(ss))

\* JSON.stringify yields no text for these (undefined, a function).
NoText(v) == v.t \in {"undef", "fn"}

RECURSIVE ContainsCycle(_)
ContainsCycle(v) ==
    \/ v.t = "cyc"
    \/ /\ v.t \in {"arr", "obj", "kv"}
       /\ \E i \in 1..Len(v.k) : ContainsCycle(v.k[i])

RECURSIVE Text(_)
\* The text JSON.stringify gives a value that has one and holds no cycle:
\* undefined and functions become null in an array and are left out of an
\* object; NaN becomes null; an Error has no enumerable members.
Text(v) ==
    CASE v.t = "null" -> <<P("null")>>
      [] v.t = "nan" -> <<P("null")>>
      [] v.t = "bool" -> <<P(IF v.n = 1 THEN "true" ELSE "false")>>
      [] v.t = "num" -> <<TNum(v.n)>>
      [] v.t = "str" -> <<TStr(v.s)>>
      [] v.t = "err" -> <<P("{"), P("}")>>
      [] v.t = "arr" ->
            <<P("[")>>
            \o Join([i \in 1..Len(v.k) |->
                       IF NoText(v.k[i]) THEN <<P("null")>> ELSE Text(v.k[i])])
            \o <<P("]")>>
      [] v.t = "obj" ->
            LET kept == SelectSeq(v.k, LAMBDA m : ~NoText(m.k[1]))
            IN  <<P("{")>>
                \o Join([i \in 1..Len(kept) |->
                           <<TStr(kept[i].s), P(":")>> \o Text(kept[i].k[1])])
                \o <<P("}")>>
      [] OTHER -> <<P("null")>>

\* JSON.stringify(v): [ok, text]; it throws a TypeError on a cyclic value.
JSONStringifyFirst(v) ==
    LET w == IF v.t = "arr" /\ Len(v.k) > 0 THEN v.k[1] ELSE v
    IN  IF ContainsCycle(w) THEN [ok |-> FALSE, text |-> <<>>]
        ELSE [ok |-> TRUE, text |-> Text(w)]

JSONStringify(v) ==
    IF ContainsCycle(v) THEN [ok |-> FALSE, text |-> <<>>]
    ELSE [ok |-> TRUE, text |-> Text(v)]

\* The result of parsing from position i: the value and the next position
\* (0: a syntax error).
PR(v, i) == [v |-> v, i |-> i]
Bad == PR(Undef, 0)
At(toks, i) == IF i >= 1 /\ i <= Len(toks) THEN toks[i] ELSE Val("eof", 0, "", <<>>)

RECURSIVE ParseValue(_, _), ParseItems(_, _, _), ParseMembers(_, _, _)
ParseValue(toks, i) ==
    LET t == At(toks, i)
    IN  CASE t.t = "n" -> PR(Num(t.n), i + 1)
          [] t.t = "s" -> PR(Str(t.s), i + 1)
          [] t = P("null") -> PR(Null, i + 1)
          [] t = P("true") -> PR(Bool(TRUE), i + 1)
          [] t = P("false") -> PR(Bool(FALSE), i + 1)
          [] t = P("[") ->
                IF At(toks, i + 1) = P("]") THEN PR(Arr(<<>>), i + 2)
                ELSE ParseItems(toks, i + 1, <<>>)
          [] t = P("{") ->
                IF At(toks, i + 1) = P("}") THEN PR(Obj(<<>>), i + 2)
                ELSE ParseMembers(toks, i + 1, <<>>)
          [] OTHER -> Bad
\* the items of an array, from the item at i, acc the items before it
ParseItems(toks, i, acc) ==
    LET r == ParseValue(toks, i)
    IN  IF r.i = 0 THEN Bad
        ELSE IF At(toks, r.i) = P(",") THEN ParseItems(toks, r.i + 1, Append(acc, r.v))
        ELSE IF At(toks, r.i) = P("]") THEN PR(Arr(Append(acc, r.v)), r.i + 1)
        ELSE Bad
\* the members of an object, from the key at i, acc the members before it
ParseMembers(toks, i, acc) ==
    IF At(toks, i).t # "s" \/ At(toks, i + 1) # P(":") THEN Bad
    ELSE LET r == ParseValue(toks, i + 2)
             m == KV(At(toks, i).s, r.v)
         IN  IF r.i = 0 THEN Bad
             ELSE IF At(toks, r.i) = P(",") THEN ParseMembers(toks, r.i + 1, Append(acc, m))
             ELSE IF At(toks, r.i) = P("}") THEN PR(Obj(Append(acc, m)), r.i + 1)
             ELSE Bad

\* JSON.parse(text): [ok, v]; it throws a SyntaxError on text that is not JSON.
JSONParse(toks) ==
    LET r == ParseValue(toks, 1)
    IN  IF r.i = Len(toks) + 1 THEN [ok |-> TRUE, v |-> r.v]
        ELSE [ok |-> FALSE, v |-> Undef]

(***************************************************************************)
(* vm.dump (quickjs-emscripten): a string, a number or undefined is read   *)
(* as it is; any other value is serialised in the sandbox and parsed on    *)
(* the host, an Error's name, message and stack copied in; a value with no *)
(* JSON text is read as its string form.                                   *)
(***************************************************************************)
\* the members vm.dump copies from an Error instance
ErrorProps(v) ==
    <<KV("name", Str(v.s)), KV("message", v.k[1]), KV("stack", Str("stack"))>>

Dump(v) ==
    IF v.t \in {"str", "text", "num", "nan", "undef"} THEN v
    ELSE IF ContainsCycle(v) THEN Str("[object Object]")
    ELSE IF v.t = "fn" THEN Str("function")
    ELSE LET enumerable == JSONParse(Text(v)).v
             withProps == IF v.t = "err"
                          THEN Obj(enumerable.k \o ErrorProps(v))
                          ELSE enumerable
         IN  JSONParse(Text(withProps)).v

(***************************************************************************)
(* The sandbox's global object: a function from the names defined to their *)
(* values.                                                                 *)
(***************************************************************************)
NoProps == [n \in {} |-> Undef]
\* vm.setProp(vm.global, name, v)
WithProp(g, name, v) ==
    [n \in DOMAIN g \cup {name} |-> IF n = name THEN v ELSE g[n]]

(***************************************************************************)
(* Processor scripts. A script makes the console.log calls `logs` (each a  *)
(* sequence of arguments) and then ends: it returns or throws the          *)
(* expression e, or it does not parse.                                     *)
(***************************************************************************)
Script(logs, end, e, v, name) ==
    [logs |-> logs, end |-> end, e |-> e, v |-> v, name |-> name]
\* return <constant>;
Return(v) == Script(<<>>, "return", "const", v, "")
\* throw <constant>;
Throw(v) == Script(<<>>, "throw", "const", v, "")
\* return queryResult;
ReturnQueryResult == Script(<<>>, "return", "queryResult", Undef, "")
\* return queryResult.length;
ReturnLength == Script(<<>>, "return", "length", Undef, "")
\* return typeof <name>;
ReturnTypeof(name) == Script(<<>>, "return", "typeof", Undef, name)
\* return <name>;
ReturnRef(name) == Script(<<>>, "return", "ref", Undef, name)
\* function( {
Malformed == Script(<<>>, "syntax", "const", Undef, "")
WithLogs(sc, logs) == [sc EXCEPT !.logs = logs]

\* the argument lists of the console.log calls the scripts make
LogCalls == {<<Str("hi")>>, <<Cyc, Num(1)>>}
LogSeqs == UNION {[1..n -> LogCalls] : n \in 0..MaxLogs}

\* names of the host a script may try to read
HostNames == {"ethAddressOption", "require"}

Scripts ==
    {WithLogs(Return(Num(1)), l) : l \in LogSeqs}
    \cup {WithLogs(Throw(Err("Error", "bad")), <<<<Str("hi")>>>>)}
    \cup {ReturnQueryResult, ReturnLength, Malformed,
          Throw(Err("Error", "bad")), Throw(Str("oops")), Throw(Num(7)),
          Throw(Obj(<<KV("code", Num(1))>>)), Throw(Null)}
    \cup {ReturnTypeof(n) : n \in {"console", "process", "require"}}
    \cup {ReturnRef(n) : n \in HostNames}

\* what fetchQuery may resolve to for one query
ObjA1 == Obj(<<KV("a", Num(1))>>)
ObjB2 == Obj(<<KV("b", Num(2))>>)
Nested == Obj(<<KV("k", Arr(<<Str("x"), Null, Arr(<<Bool(TRUE)>>)>>))>>)
Lossy == Arr(<<Undef, NaN>>)
QueryValues == {ObjA1, ObjB2, Nested, Lossy, Cyc}

\* the values of process.env.USER_ETH_ADDRESS
Addresses == {"0xA", "0xB"}

Procs == {1, 2}
\* the execution the run command starts
CmdProc == 1

VARIABLES
    \* runProcessor, per execution: the position, the arguments and the locals
    ex,
    \* the execution running synchronous code (0: none, the event loop is idle)
    running,
    \* the sandbox contexts alive, and every context acquired, in order
    liveCtx, acquired,
    \* the number of vm.dispose calls
    disposed,
    \* the host's console.log lines that the sandbox's log calls produced
    hostLog,
    \* the calls of runProcessor each caller made
    calls,
    \* module state of the program: verbose and ethAddressOption
    verbose, ethAddressOption,
    \* the invocation: process.env.USER_ETH_ADDRESS ("": not set), the values
    \* of the options -e and -v, the command and its option -i
    env, optE, optV, command, index,
    \* the status process.exit was called with, and what the query command
    \* printed as its results
    exitStatus, printed,
    \* runCommand: the position, the fetches, the locals, the report
    cmdPc, fetch, queryResults, processorResult, cmdError, out, errOut,
    procCalls

execVars == <<ex, running, liveCtx, acquired, disposed, hostLog>>
hostVars == <<verbose, ethAddressOption, env, optE, optV, command, index,
              exitStatus, printed>>
cmdVars == <<cmdPc, fetch, queryResults, processorResult, cmdError, out, errOut,
             procCalls>>
vars == <<execVars, calls, hostVars, cmdVars>>

NoResult == [kind |-> "none", v |-> Undef]
\* a thrown value: cls tells where it comes from (script, fault, serialization)
Thrown(cls, v) == [kind |-> "thrown", cls |-> cls, v |-> v]
Returned(v) == [kind |-> "value", cls |-> "", v |-> v]
NoOutcome == [kind |-> "none", cls |-> "", v |-> Undef]
HostFault(where) == Thrown("fault", Err("HostFault", where))

\* the locals of an execution that has not started
Fresh(sc, qr) ==
    [pc |-> "idle", processor |-> sc, wrapped |-> FALSE, queryResults |-> qr,
     vm |-> 0, held |-> <<>>, text |-> <<>>, consoleObj |-> Undef,
     global |-> NoProps, logIdx |-> 0, result |-> NoResult, local |-> Undef,
     error |-> NoOutcome, completion |-> NoOutcome, outcome |-> NoOutcome,
     disposals |-> 0]

Without(seq, h) == SelectSeq(seq, LAMBDA e : e # h)

(***************************************************************************)
(* runProcessor (src/src/catts.ts 117-166). After the await of line 124    *)
(* the function runs synchronously to its end: `running` is the execution  *)
(* the JavaScript thread is in, and nothing else happens meanwhile.        *)
(***************************************************************************)
\* a step of execution p that changes only its locals, to r
Local(p, r) ==
    /\ ex' = [ex EXCEPT ![p] = r]
    /\ UNCHANGED <<running, liveCtx, acquired, disposed, hostLog, calls,
                   hostVars, cmdVars>>
Runs(p, label) == ex[p].pc = label /\ running = p
\* an unexpected fault inside the try block: control goes to the catch clause
Faulted(p, where) == [ex[p] EXCEPT !.pc = "L162", !.error = HostFault(where)]

\* The call: the arguments are bound and line 124 starts loading the module.
Enter(p, sc, qr) == [Fresh(sc, qr) EXCEPT !.pc = "L124"]

\* line 124: the awaited module load settles when the event loop is idle
LoadModule(p) ==
    /\ ex[p].pc = "L124"
    /\ running = 0
    /\ \E ok \in BOOLEAN :
        IF ok
        THEN /\ ex' = [ex EXCEPT ![p].pc = "L125"]
             /\ running' = p
        ELSE /\ ex' = [ex EXCEPT ![p].pc = "done",
                                 ![p].outcome = HostFault("module")]
             /\ UNCHANGED running
    /\ UNCHANGED <<liveCtx, acquired, disposed, hostLog, calls, hostVars, cmdVars>>

\* the context QuickJS.newContext() returns: a new one at every call
NewCtxIdCached == IF acquired = <<>> THEN 1 ELSE acquired[1]
NewCtxId == Len(acquired) + 1

\* line 125: const vm = QuickJS.newContext(), outside the try block
NewContext(p) ==
    /\ Runs(p, "L125")
    /\ \E ok \in BOOLEAN :
        IF ok
        THEN /\ ex' = [ex EXCEPT ![p].pc = "L129", ![p].vm = NewCtxId]
             /\ liveCtx' = liveCtx \cup {NewCtxId}
             /\ acquired' = Append(acquired, NewCtxId)
             /\ UNCHANGED running
        ELSE /\ ex' = [ex EXCEPT ![p].pc = "done",
                                 ![p].outcome = HostFault("newContext")]
             /\ running' = 0
             /\ UNCHANGED <<liveCtx, acquired>>
    /\ UNCHANGED <<disposed, hostLog, calls, hostVars, cmdVars>>

\* line 129, the argument: JSON.stringify(queryResults)
Stringify(p) ==
    /\ Runs(p, "L129")
    /\ LET r == JSONStringify(ex[p].queryResults)
       IN  Local(p, IF r.ok
                    THEN [ex[p] EXCEPT !.pc = "L129n", !.text = r.text]
                    ELSE [ex[p] EXCEPT !.pc = "L162",
                            !.error = Thrown("serialization",
                                             Err("TypeError", "circular structure"))])

\* line 129: vm.newString(...)
NewString(p) ==
    /\ Runs(p, "L129n")
    /\ \E ok \in BOOLEAN :
        Local(p, IF ok
                 THEN [ex[p] EXCEPT !.pc = "L130",
                                    !.held = Append(@, "queryResultRaw")]
                 ELSE Faulted(p, "newString"))

\* line 130: vm.setProp(vm.global, "queryResultRaw", queryResultRaw)
SetQueryResultRawSkipped(p) ==
    /\ Runs(p, "L130")
    /\ \E ok \in BOOLEAN :
        Local(p, IF ok
                 THEN [ex[p] EXCEPT !.pc = "L131"]
                 ELSE Faulted(p, "setProp queryResultRaw"))

SetQueryResultRaw(p) ==
    /\ Runs(p, "L130")
    /\ \E ok \in BOOLEAN :
        Local(p, IF ok
                 THEN [ex[p] EXCEPT !.pc = "L131",
                         !.global = WithProp(@, "queryResultRaw", JText(ex[p].text))]
                 ELSE Faulted(p, "setProp queryResultRaw"))

\* line 131: queryResultRaw.dispose()
DisposeQueryResultRawSkipped(p) ==
    /\ Runs(p, "L131")
    /\ Local(p, [ex[p] EXCEPT !.pc = "L134"])

DisposeQueryResultRaw(p) ==
    /\ Runs(p, "L131")
    /\ Local(p, [ex[p] EXCEPT !.pc = "L134", !.held = Without(@, "queryResultRaw")])

\* line 134: vm.newFunction("log", ...)
NewFunction(p) ==
    /\ Runs(p, "L134")
    /\ \E ok \in BOOLEAN :
        Local(p, IF ok
                 THEN [ex[p] EXCEPT !.pc = "L137", !.held = Append(@, "logFn")]
                 ELSE Faulted(p, "newFunction"))

\* line 137: vm.newObject()
NewObject(p) ==
    /\ Runs(p, "L137")
    /\ \E ok \in BOOLEAN :
        Local(p, IF ok
                 THEN [ex[p] EXCEPT !.pc = "L138", !.held = Append(@, "consoleObj"),
                                    !.consoleObj = Obj(<<>>)]
                 ELSE Faulted(p, "newObject"))

\* line 138: vm.setProp(consoleObj, "log", logFn)
SetLog(p) ==
    /\ Runs(p, "L138")
    /\ \E ok \in BOOLEAN :
        Local(p, IF ok
                 THEN [ex[p] EXCEPT !.pc = "L139",
                         !.consoleObj = Obj(@.k \o <<KV("log", Fn("log"))>>)]
                 ELSE Faulted(p, "setProp log"))

\* line 139: vm.setProp(vm.global, "console", consoleObj)
SetConsoleAndAddress(p) ==
    /\ Runs(p, "L139")
    /\ \E ok \in BOOLEAN :
        Local(p, IF ok
                 THEN [ex[p] EXCEPT !.pc = "L140",
                         !.global = WithProp(WithProp(@, "console", ex[p].consoleObj),
                                             "ethAddressOption", Str(ethAddressOption))]
                 ELSE Faulted(p, "setProp console"))

SetConsole(p) ==
    /\ Runs(p, "L139")
    /\ \E ok \in BOOLEAN :
        Local(p, IF ok
                 THEN [ex[p] EXCEPT !.pc = "L140",
                         !.global = WithProp(@, "console", ex[p].consoleObj)]
                 ELSE Faulted(p, "setProp console"))

\* line 140: logFn.dispose()
DisposeLogFnAsConsoleObj(p) ==
    /\ Runs(p, "L140")
    /\ Local(p, [ex[p] EXCEPT !.pc = "L141", !.held = Without(@, "consoleObj")])

DisposeLogFn(p) ==
    /\ Runs(p, "L140")
    /\ Local(p, [ex[p] EXCEPT !.pc = "L141", !.held = Without(@, "logFn")])

\* line 141: consoleObj.dispose()
DisposeConsoleObj(p) ==
    /\ Runs(p, "L141")
    /\ Local(p, [ex[p] EXCEPT !.pc = "L143", !.held = Without(@, "consoleObj")])

\* lines 143-149: the script is wrapped in function process() and the unit
\* that parses queryResultRaw and calls process()
Wrap(p) ==
    /\ Runs(p, "L143")
    /\ Local(p, [ex[p] EXCEPT !.pc = "L151", !.wrapped = TRUE])

(***************************************************************************)
(* Evaluation of the wrapped unit inside the sandbox (line 151). The       *)
(* script sees the names of the sandbox's global object and nothing else.  *)
(***************************************************************************)
Found(v) == [found |-> TRUE, v |-> v]
NotFound == [found |-> FALSE, v |-> Undef]
\* the resolution of a free name of the script
Lookup(g, name) == IF name \in DOMAIN g THEN Found(g[name]) ELSE NotFound

TypeOf(v) ==
    CASE v.t = "undef" -> "undefined"
      [] v.t = "fn" -> "function"
      [] v.t \in {"str", "text"} -> "string"
      [] v.t \in {"num", "nan"} -> "number"
      [] v.t = "bool" -> "boolean"
      [] OTHER -> "object"

Value(v) == [kind |-> "value", v |-> v]
Error(v) == [kind |-> "error", v |-> v]

\* the value of the script's final expression, or the error it raises
EvalExpr(sc, g) ==
    CASE sc.e = "const" -> Value(sc.v)
      [] sc.e = "queryResult" ->
            IF Lookup(g, "queryResult").found
            THEN Value(Lookup(g, "queryResult").v)
            ELSE Error(Err("ReferenceError", "queryResult"))
      [] sc.e = "length" ->
            LET q == Lookup(g, "queryResult")
            IN  IF ~q.found THEN Error(Err("ReferenceError", "queryResult"))
                ELSE IF q.v.t = "arr" THEN Value(Num(Len(q.v.k)))
                ELSE IF q.v.t \in {"null", "undef"} THEN Error(Err("TypeError", "length"))
                ELSE Value(Undef)
      [] sc.e = "typeof" ->
            IF Lookup(g, sc.name).found
            THEN Value(Str(TypeOf(Lookup(g, sc.name).v)))
            ELSE Value(Str("undefined"))
      [] sc.e = "ref" ->
            IF Lookup(g, sc.name).found
            THEN Value(Lookup(g, sc.name).v)
            ELSE Error(Err("ReferenceError", sc.name))
      [] OTHER -> Value(Undef)

\* how process() ends: with the returned value, or with what was thrown
EvalEnd(sc, g) ==
    LET r == EvalExpr(sc, g)
    IN  IF sc.end = "throw" THEN Error(r.v) ELSE r

\* evaluation ends: evalCode returns {error} or {value}, a new handle
Ends(p, r) == [ex[p] EXCEPT !.pc = "L152", !.result = r, !.held = Append(@, "result")]

\* line 151: vm.evalCode(processor) starts. A unit that does not parse ends
\* at once; otherwise `let queryResult = JSON.parse(queryResultRaw)` runs.
EvalCode(p) ==
    /\ Runs(p, "L151")
    /\ \E ok \in BOOLEAN :
        LET g == ex[p].global
            raw == Lookup(g, "queryResultRaw")
            parsed == JSONParse(raw.v.k)
        IN  Local(p,
              IF ~ok THEN Faulted(p, "evalCode")
              ELSE IF ex[p].processor.end = "syntax"
                   THEN Ends(p, Error(Err("SyntaxError", "unexpected token")))
              ELSE IF ~raw.found
                   THEN Ends(p, Error(Err("ReferenceError", "queryResultRaw")))
              ELSE IF raw.v.t # "text" \/ ~parsed.ok
                   THEN Ends(p, Error(Err("SyntaxError", "JSON.parse")))
              ELSE [ex[p] EXCEPT !.pc = "eval", !.logIdx = 1,
                      !.global = WithProp(WithProp(g, "queryResult", parsed.v),
                                          "process", Fn("process"))])

\* the line console.log(...args.map((arg) => vm.dump(arg))) prints (line 135)
LogLineTwice(args) ==
    <<[i \in 1..Len(args) |-> Dump(args[i])], [i \in 1..Len(args) |-> Dump(args[i])]>>
LogLine(args) == <<[i \in 1..Len(args) |-> Dump(args[i])]>>

\* The script calls console.log: the host's callback of lines 134-136 runs
\* inside the call and the script goes on after it. Without console.log in
\* the sandbox the call raises an error in the script.
LogCallThrowing(p) ==
    /\ Runs(p, "eval")
    /\ ex[p].logIdx <= Len(ex[p].processor.logs)
    /\ LET c == Lookup(ex[p].global, "console")
           args == ex[p].processor.logs[ex[p].logIdx]
       IN  IF /\ c.found /\ c.v = Obj(<<KV("log", Fn("log"))>>)
              /\ \A i \in 1..Len(args) : ~ContainsCycle(args[i])
           THEN /\ hostLog' = hostLog \o LogLine(args)
                /\ ex' = [ex EXCEPT ![p].logIdx = @ + 1]
           ELSE /\ ex' = [ex EXCEPT ![p] = Ends(p, Error(Err("TypeError", "console.log")))]
                /\ UNCHANGED hostLog
    /\ UNCHANGED <<running, liveCtx, acquired, disposed, calls, hostVars, cmdVars>>

LogCall(p) ==
    /\ Runs(p, "eval")
    /\ ex[p].logIdx <= Len(ex[p].processor.logs)
    /\ LET c == Lookup(ex[p].global, "console")
           args == ex[p].processor.logs[ex[p].logIdx]
       IN  IF c.found /\ c.v = Obj(<<KV("log", Fn("log"))>>)
           THEN /\ hostLog' = hostLog \o LogLine(args)
                /\ ex' = [ex EXCEPT ![p].logIdx = @ + 1]
           ELSE /\ ex' = [ex EXCEPT ![p] = Ends(p, Error(Err("TypeError", "console.log")))]
                /\ UNCHANGED hostLog
    /\ UNCHANGED <<running, liveCtx, acquired, disposed, calls, hostVars, cmdVars>>

\* the script returns or throws: evalCode returns
ScriptEnd(p) ==
    /\ Runs(p, "eval")
    /\ ex[p].logIdx > Len(ex[p].processor.logs)
    /\ Local(p, Ends(p, EvalEnd(ex[p].processor, ex[p].global)))

\* line 152: if (result.error)
IsErrorNever(r) == FALSE
IsError(r) == r.kind = "error"

Classify(p) ==
    /\ Runs(p, "L152")
    /\ Local(p, [ex[p] EXCEPT !.pc = IF IsError(ex[p].result) THEN "L153" ELSE "L158"])

\* line 153: const error = vm.dump(result.error)
DumpError(p) ==
    /\ Runs(p, "L153")
    /\ \E ok \in BOOLEAN :
        Local(p, IF ok
                 THEN [ex[p] EXCEPT !.pc = "L154", !.local = Dump(ex[p].result.v)]
                 ELSE Faulted(p, "dump error"))

\* line 154: result.error.dispose()
DisposeError(p) ==
    /\ Runs(p, "L154")
    /\ Local(p, [ex[p] EXCEPT !.pc = "L155", !.held = Without(@, "result")])

\* line 155: throw error
ThrowError(p) ==
    /\ Runs(p, "L155")
    /\ Local(p, [ex[p] EXCEPT !.pc = "L162", !.error = Thrown("script", ex[p].local)])

\* line 158: const value = vm.dump(result.value)
DumpValue(p) ==
    /\ Runs(p, "L158")
    /\ \E ok \in BOOLEAN :
        Local(p, IF ok
                 THEN [ex[p] EXCEPT !.pc = "L159", !.local = Dump(ex[p].result.v)]
                 ELSE Faulted(p, "dump value"))

\* line 159: result.value.dispose()
DisposeValue(p) ==
    /\ Runs(p, "L159")
    /\ Local(p, [ex[p] EXCEPT !.pc = "L160", !.held = Without(@, "result")])

\* line 160: return value (the finally clause runs before the return)
ReturnValue(p) ==
    /\ Runs(p, "L160")
    /\ Local(p, [ex[p] EXCEPT !.pc = "L164", !.completion = Returned(ex[p].local)])

\* lines 161-163: catch (error) { throw error }
Catch(p) ==
    /\ Runs(p, "L162")
    /\ Local(p, [ex[p] EXCEPT !.pc = "L164", !.completion = ex[p].error])

\* lines 163-165: finally { vm.dispose() }, then the call returns or throws
FinallyOnReturnOnly(p) ==
    /\ Runs(p, "L164")
    /\ IF ex[p].completion.kind = "value"
       THEN /\ ex' = [ex EXCEPT ![p].pc = "done", ![p].outcome = ex[p].completion,
                                ![p].disposals = @ + 1]
            /\ liveCtx' = liveCtx \ {ex[p].vm}
            /\ disposed' = disposed + 1
       ELSE /\ ex' = [ex EXCEPT ![p].pc = "done", ![p].outcome = ex[p].completion]
            /\ UNCHANGED <<liveCtx, disposed>>
    /\ running' = 0
    /\ UNCHANGED <<acquired, hostLog, calls, hostVars, cmdVars>>

Finally(p) ==
    /\ Runs(p, "L164")
    /\ ex' = [ex EXCEPT ![p].pc = "done", ![p].outcome = ex[p].completion,
                        ![p].disposals = @ + 1]
    /\ liveCtx' = liveCtx \ {ex[p].vm}
    /\ disposed' = disposed + 1
    /\ running' = 0
    /\ UNCHANGED <<acquired, hostLog, calls, hostVars, cmdVars>>

\* a step of runProcessor
Execute(p) ==
    \/ LoadModule(p) \/ NewContext(p) \/ Stringify(p) \/ NewString(p)
    \/ SetQueryResultRaw(p) \/ DisposeQueryResultRaw(p) \/ NewFunction(p)
    \/ NewObject(p) \/ SetLog(p) \/ SetConsole(p) \/ DisposeLogFn(p)
    \/ DisposeConsoleObj(p) \/ Wrap(p) \/ EvalCode(p) \/ LogCall(p)
    \/ ScriptEnd(p) \/ Classify(p) \/ DumpError(p) \/ DisposeError(p)
    \/ ThrowError(p) \/ DumpValue(p) \/ DisposeValue(p) \/ ReturnValue(p)
    \/ Catch(p) \/ Finally(p)

(***************************************************************************)
(* logError (lines 43-53): the lines it prints for a caught value.         *)
(***************************************************************************)
\* typeof error === "object" && error !== null
IsObject(v) == v.t \in {"obj", "arr", "err", "cyc"}
\* key in error
HasProp(v, key) ==
    CASE v.t = "err" -> key \in {"name", "message", "stack"}
      [] v.t = "obj" -> \E i \in 1..Len(v.k) : v.k[i].s = key
      [] OTHER -> FALSE
\* error[key], for a key the value has
GetProp(v, key) ==
    CASE v.t = "err" -> (IF key = "name" THEN Str(v.s)
                         ELSE IF key = "message" THEN v.k[1] ELSE Str("stack"))
      [] OTHER -> (LET i == CHOOSE j \in 1..Len(v.k) : v.k[j].s = key IN v.k[i].k[1])

LogError(error) ==
    IF IsObject(error)
    THEN (IF HasProp(error, "name") THEN <<GetProp(error, "name")>> ELSE <<>>)
         \o (IF HasProp(error, "message") THEN <<GetProp(error, "message")>> ELSE <<>>)
         \o (IF verbose /\ error.t = "err" THEN <<GetProp(error, "stack")>> ELSE <<>>)
    ELSE <<error>>

(***************************************************************************)
(* runCommand (lines 168-234). Its steps run when the event loop is idle.  *)
(***************************************************************************)
Queries == 1..NumQueries
CmdUnchanged == UNCHANGED <<running, liveCtx, acquired, disposed, hostLog, calls, hostVars>>
\* control reaches the catch clause of line 230 with the value thrown
Fails(e) ==
    /\ cmdPc' = "L231"
    /\ cmdError' = e
\* queryCommand: control reaches the catch clause of line 103
QueryFails(e) ==
    /\ cmdPc' = "L104"
    /\ cmdError' = e

\* a query that was not fetched, and fetchQuery({query, verbose,
\* placeHolderValues: {userEthAddress: ethAddressOption}}) called for query i
NotFetched == [st |-> "idle", v |-> Undef, addr |-> "", starts |-> 0]
Started(i) ==
    [st |-> "pending", v |-> Undef, addr |-> ethAddressOption,
     starts |-> fetch[i].starts + 1]

\* lines 170-181: importRecipe; then every query is started and Promise.all
\* is awaited
ImportRecipe ==
    /\ cmdPc = "L170"
    /\ running = 0
    /\ \E ok \in BOOLEAN :
        IF ok
        THEN /\ out' = out \o <<"Recipe", "1/4">>
             /\ fetch' = [i \in Queries |-> Started(i)]
             /\ cmdPc' = "L181"
             /\ UNCHANGED cmdError
        ELSE /\ Fails(Err("Error", "Recipe file not found"))
             /\ UNCHANGED <<out, fetch>>
    /\ UNCHANGED <<ex, queryResults, processorResult, errOut, procCalls>>
    /\ CmdUnchanged

\* a fetchQuery promise resolves
FetchOk(i) ==
    /\ fetch[i].st = "pending"
    /\ running = 0
    /\ \E v \in QueryValues :
        fetch' = [fetch EXCEPT ![i] = [@ EXCEPT !.st = "ok", !.v = v]]
    /\ UNCHANGED <<ex, cmdPc, cmdError, queryResults, processorResult, out, errOut,
                   procCalls>>
    /\ CmdUnchanged

\* a fetchQuery promise rejects; the first rejection rejects Promise.all
FetchFail(i) ==
    /\ fetch[i].st = "pending"
    /\ running = 0
    /\ fetch' = [fetch EXCEPT ![i] = [@ EXCEPT !.st = "failed"]]
    /\ IF cmdPc = "L181"
       THEN Fails(Err("Error", "fetch"))
       ELSE IF cmdPc \in {"L79", "L98"}
       THEN QueryFails(Err("Error", "fetch"))
       ELSE UNCHANGED <<cmdPc, cmdError>>
    /\ UNCHANGED <<ex, queryResults, processorResult, out, errOut, procCalls>>
    /\ CmdUnchanged

\* lines 181-190: Promise.all resolves with the results in the order of the
\* queries; the verbose listing; loadProcessor is started
QueriesDoneAtFirst ==
    /\ cmdPc = "L181"
    /\ running = 0
    /\ \E i \in Queries : fetch[i].st = "ok"
    /\ queryResults' = Arr([i \in Queries |-> fetch[i].v])
    /\ cmdPc' = "L190"
    /\ out' = out \o <<"1/4 ok", "2/4">>
    /\ UNCHANGED <<cmdError, ex, fetch, processorResult, errOut, procCalls>>
    /\ CmdUnchanged

QueriesDone ==
    /\ cmdPc = "L181"
    /\ running = 0
    /\ \A i \in Queries : fetch[i].st = "ok"
    /\ LET all == Arr([i \in Queries |-> fetch[i].v])
       IN  /\ queryResults' = all
           /\ IF verbose /\ ~JSONStringify(all).ok
              THEN /\ Fails(Err("TypeError", "circular structure"))
                   /\ out' = out \o <<"1/4 ok">>
              ELSE /\ cmdPc' = "L190"
                   /\ out' = out \o <<"1/4 ok", "2/4">>
                   /\ UNCHANGED cmdError
    /\ UNCHANGED <<ex, fetch, processorResult, errOut, procCalls>>
    /\ CmdUnchanged

\* lines 190-194: loadProcessor, then runProcessor is called and awaited
StartProcessor(sc) ==
    /\ ex' = [ex EXCEPT ![CmdProc] = Enter(CmdProc, sc, queryResults)]
    /\ procCalls' = procCalls + 1
    /\ cmdPc' = "L191"

LoadProcessor ==
    /\ cmdPc = "L190"
    /\ running = 0
    /\ \/ /\ \E sc \in Scripts : StartProcessor(sc)
          /\ UNCHANGED cmdError
       \/ /\ Fails(Err("Error", "ENOENT processor.js"))
          /\ UNCHANGED <<ex, procCalls>>
    /\ UNCHANGED <<fetch, queryResults, processorResult, out, errOut>>
    /\ CmdUnchanged

\* lines 191-203: the awaited runProcessor settles; on a value the result is
\* listed and validateProcessorResult is started
ProcessorSettlesAnyway ==
    /\ cmdPc = "L191"
    /\ running = 0
    /\ ex[CmdProc].pc = "done"
    /\ processorResult' = ex[CmdProc].outcome.v
    /\ out' = out \o <<"2/4 ok", "3/4">>
    /\ cmdPc' = "L203"
    /\ UNCHANGED <<cmdError, ex, fetch, queryResults, errOut, procCalls>>
    /\ CmdUnchanged

ProcessorSettles ==
    /\ cmdPc = "L191"
    /\ running = 0
    /\ ex[CmdProc].pc = "done"
    /\ IF ex[CmdProc].outcome.kind = "value"
       THEN /\ processorResult' = ex[CmdProc].outcome.v
            /\ out' = out \o <<"2/4 ok", "3/4">>
            /\ cmdPc' = "L203"
            /\ UNCHANGED cmdError
       ELSE /\ Fails(ex[CmdProc].outcome.v)
            /\ UNCHANGED <<processorResult, out>>
    /\ UNCHANGED <<ex, fetch, queryResults, errOut, procCalls>>
    /\ CmdUnchanged

\* lines 203-223: validateProcessorResult settles; the verbose listing with
\* getSchemaUid; validateSchemaItems is started
ValidateProcessorResult ==
    /\ cmdPc = "L203"
    /\ running = 0
    /\ \E ok \in BOOLEAN, uid \in BOOLEAN :
        IF ~ok
        THEN /\ Fails(Err("Error", "invalid processor result"))
             /\ UNCHANGED out
        ELSE IF verbose /\ ~uid
        THEN /\ Fails(Err("Error", "getSchemaUid"))
             /\ out' = out \o <<"3/4 ok">>
        ELSE /\ cmdPc' = "L223"
             /\ out' = out \o <<"3/4 ok", "4/4">>
             /\ UNCHANGED cmdError
    /\ UNCHANGED <<ex, fetch, queryResults, processorResult, errOut, procCalls>>
    /\ CmdUnchanged

\* lines 223-229: validateSchemaItems settles; the final message
ValidateSchemaItems ==
    /\ cmdPc = "L223"
    /\ running = 0
    /\ \E ok \in BOOLEAN :
        IF ok
        THEN /\ cmdPc' = "end"
             /\ out' = out \o <<"4/4 ok", "Done! Recipe is ready to be deployed.">>
             /\ UNCHANGED cmdError
        ELSE /\ Fails(Err("Error", "invalid schema items"))
             /\ UNCHANGED out
    /\ UNCHANGED <<ex, fetch, queryResults, processorResult, errOut, procCalls>>
    /\ CmdUnchanged

\* lines 230-233: catch (error) { console.log("Run failed"); logError(error) }
CatchRun ==
    /\ cmdPc = "L231"
    /\ running = 0
    /\ cmdPc' = "end"
    /\ out' = out \o <<"Run failed">>
    /\ errOut' = errOut \o LogError(cmdError)
    /\ UNCHANGED <<ex, fetch, queryResults, processorResult, cmdError, procCalls>>
    /\ CmdUnchanged

RunCommand ==
    \/ ImportRecipe
    \/ \E i \in Queries : FetchOk(i) \/ FetchFail(i)
    \/ QueriesDone \/ LoadProcessor \/ ProcessorSettles
    \/ ValidateProcessorResult \/ ValidateSchemaItems \/ CatchRun

(***************************************************************************)
(* queryCommand (lines 67-107).                                            *)
(***************************************************************************)
\* line 76, options?.index !== undefined: the option -i was given
HasIndexTruthy == index # Undef /\ index.n # 0
HasIndex == index # Undef
\* line 78, recipe.queries[options.index]: the query's place in the recipe
Slot(ix) == ix.n + 1

\* lines 72-98: importRecipe; then the query at the index is fetched, or
\* every query is, and the result is awaited
QueryImportRecipe ==
    /\ cmdPc = "L72"
    /\ running = 0
    /\ \E ok \in BOOLEAN :
        IF ~ok
        THEN /\ QueryFails(Err("Error", "Recipe file not found"))
             /\ UNCHANGED <<out, fetch>>
        ELSE IF HasIndex
        THEN /\ out' = out \o <<"Recipe", "Running query with index">>
             /\ fetch' = [fetch EXCEPT ![Slot(index)] = Started(Slot(index))]
             /\ cmdPc' = "L79"
             /\ UNCHANGED cmdError
        ELSE /\ out' = out \o <<"Recipe", "Running all queries">>
             /\ fetch' = [i \in Queries |-> Started(i)]
             /\ cmdPc' = "L98"
             /\ UNCHANGED cmdError
    /\ UNCHANGED <<ex, queryResults, processorResult, errOut, procCalls>>
    /\ CmdUnchanged

\* lines 101-102: the check mark, then console.log(JSON.stringify(
\* queryResults, null, 2)); the text is kept without its white space
PrintResults(r) ==
    /\ queryResults' = r
    /\ out' = out \o <<"ok">>
    /\ IF JSONStringify(r).ok
       THEN /\ printed' = Append(printed, JText(JSONStringify(r).text))
            /\ cmdPc' = "end"
            /\ UNCHANGED cmdError
       ELSE /\ QueryFails(Err("TypeError", "circular structure"))
            /\ UNCHANGED printed
    /\ UNCHANGED <<execVars, calls, verbose, ethAddressOption, env, optE, optV,
                   command, index, exitStatus, fetch, processorResult, errOut,
                   procCalls>>

\* line 79: the awaited fetchQuery of the query at the index resolves
QueryFetched ==
    /\ cmdPc = "L79"
    /\ running = 0
    /\ fetch[Slot(index)].st = "ok"
    /\ PrintResults(fetch[Slot(index)].v)

\* line 98: Promise.all resolves with the results in the order of the queries
AllQueriesFetched ==
    /\ cmdPc = "L98"
    /\ running = 0
    /\ \A i \in Queries : fetch[i].st = "ok"
    /\ PrintResults(Arr([i \in Queries |-> fetch[i].v]))

\* lines 103-106: catch (error) { console.log("Query failed"); logError(error) }
CatchQuery ==
    /\ cmdPc = "L104"
    /\ running = 0
    /\ cmdPc' = "end"
    /\ out' = out \o <<"Query failed">>
    /\ errOut' = errOut \o LogError(cmdError)
    /\ UNCHANGED <<ex, fetch, queryResults, processorResult, cmdError, procCalls>>
    /\ CmdUnchanged

QueryCommand ==
    \/ QueryImportRecipe
    \/ \E i \in Queries : FetchOk(i) \/ FetchFail(i)
    \/ QueryFetched \/ AllQueriesFetched \/ CatchQuery

(***************************************************************************)
(* The preAction hook (lines 247-263), which commander runs before the     *)
(* action of the command.                                                  *)
(***************************************************************************)
\* what `if (v)` takes for a value that is undefined or a string
Truthy(v) == ~(v.t = "undef" \/ (v.t = "str" /\ v.s = ""))

ActionOf(cmd) == IF cmd = "run" THEN "L170" ELSE "L72"

PreAction ==
    /\ cmdPc = "L247"
    /\ running = 0
    /\ verbose' = optV
    /\ ethAddressOption' = IF Truthy(optE) THEN optE.s ELSE ethAddressOption
    /\ IF ethAddressOption' = ""
       THEN /\ errOut' = errOut \o <<Str("Error: USER_ETH_ADDRESS needs to be set")>>
            /\ exitStatus' = Num(1)
            /\ cmdPc' = "exit"
       ELSE /\ cmdPc' = ActionOf(command)
            /\ UNCHANGED <<errOut, exitStatus>>
    /\ UNCHANGED <<execVars, calls, env, optE, optV, command, index, printed,
                   fetch, queryResults, processorResult, cmdError, out, procCalls>>

(***************************************************************************)
(* The program: `catts run <recipeFolder>`, from the action of the command *)
(* on.                                                                     *)
(***************************************************************************)
NotCalled == Fresh(Malformed, Undef)

InitShared ==
    /\ ex = [p \in Procs |-> NotCalled]
    /\ running = 0
    /\ liveCtx = {}
    /\ acquired = <<>>
    /\ disposed = 0
    /\ hostLog = <<>>
    /\ calls = [p \in Procs |-> 0]
    /\ verbose \in BOOLEAN
    /\ ethAddressOption \in Addresses
    /\ env = ethAddressOption
    /\ optE = Undef
    /\ optV = verbose
    /\ command = "run"
    /\ index = Undef
    /\ exitStatus = Undef
    /\ printed = <<>>
    /\ fetch = [i \in Queries |-> NotFetched]
    /\ queryResults = Undef
    /\ processorResult = Undef
    /\ cmdError = Undef
    /\ out = <<>>
    /\ errOut = <<>>
    /\ procCalls = 0

Init == InitShared /\ cmdPc = "L170"

Next == RunCommand \/ Execute(CmdProc)

Spec == Init /\ [][Next]_vars

(***************************************************************************)
(* The program from its start: `catts [-e <address>] [-v] run <folder>`    *)
(* and `catts [-e <address>] [-v] query <folder> [-i <index>]`.            *)
(***************************************************************************)
\* the values of the option -e (undefined: not given), of the environment
\* variable ("": not set) and of the option -i (the places of the recipe's
\* queries)
Options == {Undef, Str(""), Str("0xC")}
EnvValues == {"", "0xA"}
Indexes == {Undef} \cup {Num(k) : k \in 0..(NumQueries - 1)}

InitCli ==
    /\ ex = [p \in Procs |-> NotCalled]
    /\ running = 0
    /\ liveCtx = {}
    /\ acquired = <<>>
    /\ disposed = 0
    /\ hostLog = <<>>
    /\ calls = [p \in Procs |-> 0]
    /\ verbose = FALSE
    /\ env \in EnvValues
    /\ ethAddressOption = env
    /\ optE \in Options
    /\ optV \in BOOLEAN
    /\ command \in {"run", "query"}
    /\ index \in IF command = "query" THEN Indexes ELSE {Undef}
    /\ exitStatus = Undef
    /\ printed = <<>>
    /\ fetch = [i \in Queries |-> NotFetched]
    /\ queryResults = Undef
    /\ processorResult = Undef
    /\ cmdError = Undef
    /\ out = <<>>
    /\ errOut = <<>>
    /\ procCalls = 0
    /\ cmdPc = "L247"

NextCli == PreAction \/ QueryCommand \/ RunCommand \/ Execute(CmdProc)

SpecCli == InitCli /\ [][NextCli]_vars

(***************************************************************************)
(* runProcessor called by two callers, each several times, the calls       *)
(* overlapping as the event loop allows.                                   *)
(***************************************************************************)
CallScripts ==
    {WithLogs(Return(Num(1)), <<<<Str("hi")>>>>), Throw(Err("Error", "bad")),
     ReturnQueryResult}
CallInputs == {Arr(<<ObjA1>>), Arr(<<Cyc>>)}

Call(p) ==
    /\ ex[p].pc \in {"idle", "done"}
    /\ running = 0
    /\ calls[1] + calls[2] < MaxCalls
    /\ \E sc \in CallScripts, qr \in CallInputs :
        ex' = [ex EXCEPT ![p] = Enter(p, sc, qr)]
    /\ calls' = [calls EXCEPT ![p] = @ + 1]
    /\ UNCHANGED <<running, liveCtx, acquired, disposed, hostLog, hostVars, cmdVars>>

InitConc == InitShared /\ cmdPc = "none"

NextConc == \E p \in Procs : Call(p) \/ Execute(p)

SpecConc == InitConc /\ [][NextConc]_vars
(***************************************************************************)
(* Properties.                                                             *)
(***************************************************************************)
Done(p) == ex[p].pc = "done"
\* the execution got a result from evalCode
Evaluated(p) == ex[p].result.kind # "none"
Count(seq, e) == Cardinality({i \in 1..Len(seq) : seq[i] = e})
IsPrefix(a, b) == Len(a) <= Len(b) /\ a = SubSeq(b, 1, Len(a))

\* C1: an execution that created its context has called vm.dispose exactly
\* once when it returns or throws, however it ends, and never before; when no
\* execution is running, as many contexts were disposed as were created.
ContextTornDownOnce ==
    /\ \A p \in Procs :
        /\ Done(p) => /\ ex[p].disposals = (IF ex[p].vm # 0 THEN 1 ELSE 0)
                      /\ ex[p].vm \notin liveCtx
        /\ ~Done(p) => ex[p].disposals = 0
    /\ running = 0 => Len(acquired) = disposed /\ liveCtx = {}

\* C1 witness: one execution ended by a fault in the middle of the setup and
\* another by a script error, both with their context disposed.
ContextTornDownOnceWitness ==
    \E p, q \in Procs :
        /\ Done(p) /\ ex[p].outcome.cls = "fault" /\ ex[p].held # <<>>
        /\ Done(q) /\ ex[q].outcome.cls = "script"
        /\ ex[p].disposals = 1 /\ ex[q].disposals = 1
        /\ disposed >= 2

\* C2: when JSON.stringify throws, the execution has created no sandbox
\* context and no handle.
SerializationFailsBeforeAllocation ==
    \A p \in Procs :
        ex[p].error.cls = "serialization" => ex[p].vm = 0 /\ ex[p].held = <<>>

\* C3: an execution that got a result from evalCode ends in one outcome that
\* the result's error discriminant decides: an error result is thrown, as
\* the decoded diagnostic unless the decoding faults, and is never returned;
\* a value result is returned decoded, unless the decoding faults, and is
\* never thrown as a script error. A script that throws or does not parse
\* gives an error result. `return queryResult.length` on two results gives
\* 2; `throw new Error("bad")` fails with the message "bad".
OutcomeFollowsDiscriminant ==
    \A p \in Procs :
        Done(p) /\ Evaluated(p) =>
            LET e == ex[p] IN
            /\ e.processor.end \in {"throw", "syntax"} => e.result.kind = "error"
            /\ e.result.kind = "error" =>
                  /\ e.outcome.kind = "thrown"
                  /\ e.outcome.cls \in {"script", "fault"}
                  /\ e.outcome.cls = "script" => e.outcome.v = Dump(e.result.v)
            /\ e.result.kind = "value" =>
                  /\ e.outcome.cls # "script"
                  /\ e.outcome.kind = "value" \/ e.outcome.cls = "fault"
                  /\ e.outcome.kind = "value" => e.outcome.v = Dump(e.result.v)
            /\ e.processor = ReturnLength /\ e.queryResults = Arr(<<ObjA1, ObjB2>>)
                  /\ e.outcome.cls # "fault"
                  => e.outcome = Returned(Num(2))
            /\ e.processor = Throw(Err("Error", "bad")) /\ e.outcome.cls # "fault"
                  => /\ e.outcome.kind = "thrown"
                     /\ GetProp(e.outcome.v, "message") = Str("bad")

\* C3 witness: `return queryResult.length` returned 2 for two query results.
OutcomeFollowsDiscriminantWitness ==
    /\ Done(CmdProc)
    /\ ex[CmdProc].processor = ReturnLength
    /\ ex[CmdProc].queryResults = Arr(<<ObjA1, ObjB2>>)
    /\ ex[CmdProc].outcome = Returned(Num(2))

\* C4: what runProcessor throws for a script error is an object with a name
\* and a message, whatever the script threw.
ScriptErrorHasNameAndMessage ==
    \A p \in Procs :
        Done(p) /\ ex[p].outcome.cls = "script" =>
            /\ IsObject(ex[p].outcome.v)
            /\ HasProp(ex[p].outcome.v, "name")
            /\ HasProp(ex[p].outcome.v, "message")

\* the lines of a run that succeeds
SuccessOut ==
    <<"Recipe", "1/4", "1/4 ok", "2/4", "2/4 ok", "3/4", "3/4 ok", "4/4", "4/4 ok",
      "Done! Recipe is ready to be deployed.">>
\* the lines printed once the processor has succeeded
AfterProcessor == {SuccessOut[i] : i \in 5..Len(SuccessOut)}

\* C5: once the processor execution of the run command has failed, the
\* processor has been run once and is not run again, the failure is caught
\* by the command's catch clause, no later step is printed or started, and
\* "Run failed" is printed once, by the time the command ends.
ProcessorFailureStopsRun ==
    Done(CmdProc) /\ ex[CmdProc].outcome.kind = "thrown" =>
        /\ procCalls = 1
        /\ cmdPc \in {"L191", "L231", "end"}
        /\ cmdPc # "L191" => cmdError = ex[CmdProc].outcome.v
        /\ \A i \in 1..Len(out) : out[i] \notin AfterProcessor
        /\ Count(out, "Run failed") = (IF cmdPc = "end" THEN 1 ELSE 0)
        /\ processorResult = Undef

\* C5 witness: the command ended after a script error of the processor.
ProcessorFailureStopsRunWitness ==
    /\ cmdPc = "end"
    /\ Done(CmdProc)
    /\ ex[CmdProc].outcome.cls = "script"
    /\ out = <<"Recipe", "1/4", "1/4 ok", "2/4", "Run failed">>

\* C6: the run command prints its steps in the order fetch, processor,
\* validate result, validate schema items, each after the one before has
\* succeeded; the processor is run at most once and only when every fetch
\* has succeeded, on their results in the order of the queries; the final
\* message comes only after all four steps, and never with "Run failed".
StepsInOrder ==
    /\ \/ IsPrefix(out, SuccessOut)
       \/ /\ Len(out) >= 1
          /\ out[Len(out)] = "Run failed"
          /\ IsPrefix(SubSeq(out, 1, Len(out) - 1), SubSeq(SuccessOut, 1, 9))
    /\ procCalls <= 1
    /\ procCalls = 1 <=> ex[CmdProc].pc # "idle"
    /\ ex[CmdProc].pc # "idle" =>
          /\ \A i \in Queries : fetch[i].st = "ok"
          /\ ex[CmdProc].queryResults = Arr([i \in Queries |-> fetch[i].v])
          /\ Count(out, "1/4 ok") = 1
    /\ Count(out, "2/4 ok") = 1 => Done(CmdProc) /\ ex[CmdProc].outcome.kind = "value"
    /\ Count(out, SuccessOut[10]) = 1 => cmdPc = "end" /\ out = SuccessOut

\* C6 witness: a run that succeeded.
StepsInOrderWitness ==
    /\ cmdPc = "end"
    /\ out = SuccessOut
    /\ ex[CmdProc].outcome.kind = "value"

\* C7: every execution acquires a context no other execution has or had, a
\* context an execution is using is alive, and no two executions hold the
\* same context.
ContextsNeverShared ==
    /\ \A i, j \in 1..Len(acquired) : i # j => acquired[i] # acquired[j]
    /\ \A p \in Procs : ex[p].vm # 0 /\ ~Done(p) => ex[p].vm \in liveCtx
    /\ \A p, q \in Procs : p # q /\ ex[p].vm # 0 => ex[p].vm # ex[q].vm

\* C7 witness: an execution evaluates in the second context while the other
\* caller, whose first execution used the first context, awaits the module.
ContextsNeverSharedWitness ==
    /\ ex[1].pc = "L124"
    /\ calls[1] = 2
    /\ ex[2].pc = "eval"
    /\ acquired = <<1, 2>>
    /\ liveCtx = {2}

\* C8: for JSON-representable query results, the script's queryResult
\* equals them, and `return queryResult` returns a value equal to them.
RoundTrip ==
    \A p \in Procs :
        JsonRepresentable(ex[p].queryResults) =>
            /\ "queryResult" \in DOMAIN ex[p].global =>
                  ex[p].global["queryResult"] = ex[p].queryResults
            /\ Done(p) /\ ex[p].processor = ReturnQueryResult
                  /\ ex[p].outcome.kind = "value"
                  => ex[p].outcome.v = ex[p].queryResults

\* C8 witness: nested query results came back from `return queryResult`.
RoundTripWitness ==
    /\ Done(CmdProc)
    /\ ex[CmdProc].processor = ReturnQueryResult
    /\ ex[CmdProc].queryResults = Arr(<<Nested, ObjA1>>)
    /\ ex[CmdProc].outcome = Returned(Arr(<<Nested, ObjA1>>))

ExpectedLine(args) ==
    [j \in 1..Len(args) |-> IF args[j] = Cyc THEN Str("[object Object]") ELSE args[j]]

\* C10: at every moment the host has printed one line for each console.log
\* call the script has made, in the order of the calls; a script that ran to
\* its end has had all its calls printed when runProcessor ends; the calls
\* do not change the value returned.
LogsForwardedInOrder ==
    LET e == ex[CmdProc]
        made == IF e.logIdx = 0 THEN 0 ELSE e.logIdx - 1
    IN  /\ Len(hostLog) = made
        /\ \A i \in 1..Len(hostLog) : hostLog[i] = ExpectedLine(e.processor.logs[i])
        /\ Evaluated(CmdProc) /\ e.processor.end # "syntax" => made = Len(e.processor.logs)
        /\ Done(CmdProc) /\ e.outcome.kind = "value" /\ e.processor.e = "const"
              => e.outcome.v = e.processor.v

\* C10 witness: `console.log("hi"); return 1;` printed one line and gave 1.
LogsForwardedInOrderWitness ==
    /\ Done(CmdProc)
    /\ ex[CmdProc].processor = WithLogs(Return(Num(1)), <<<<Str("hi")>>>>)
    /\ hostLog = <<<<Str("hi")>>>>
    /\ ex[CmdProc].outcome = Returned(Num(1))

\* the queries fetchQuery was called for
Fetched == {i \in Queries : fetch[i].st # "idle"}
\* the action of the command has started
InAction == cmdPc \notin {"L247", "exit"}

\* C11: no action of a command runs without a user address: the address in
\* effect is the value of -e when the option is given and the environment
\* value otherwise, every fetch of the invocation uses it, and with neither
\* the program exits with status 1 before a recipe is loaded or a query
\* fetched.
AddressGate ==
    /\ InAction => ethAddressOption # ""
    /\ \A i \in Fetched : fetch[i].addr = IF optE # Undef THEN optE.s ELSE env
    /\ exitStatus # Undef =>
          /\ exitStatus = Num(1)
          /\ cmdPc = "exit"
          /\ out = <<>>
          /\ Fetched = {}
    /\ optE = Undef /\ env = "" /\ cmdPc # "L247" => exitStatus = Num(1)

\* what the query command is to print: the result of the query at the index,
\* or the list of all results in the order of the recipe's queries
ExpectedResults ==
    IF index # Undef THEN fetch[Slot(index)].v
    ELSE Arr([i \in Queries |-> fetch[i].v])

\* C12: the query command with an index (0 included) fetches the query at
\* that index and no other, once, and prints its result; without an index it
\* fetches every query once and prints the list of the results in the order
\* of the recipe; when a fetch fails nothing is printed and "Query failed" is
\* reported.
QueryFetchesAndPrints ==
    command = "query" =>
      /\ \A i \in Queries : fetch[i].starts = IF i \in Fetched THEN 1 ELSE 0
      /\ cmdPc \in {"L79", "L98"} \/ printed # <<>> =>
            Fetched = IF index # Undef THEN {Slot(index)} ELSE Queries
      /\ index # Undef => Fetched \subseteq {Slot(index)}
      /\ printed # <<>> =>
            /\ \A i \in Fetched : fetch[i].st = "ok"
            /\ printed = <<JText(Text(ExpectedResults))>>
            /\ Count(out, "Query failed") = 0
      /\ (\E i \in Fetched : fetch[i].st = "failed") =>
            /\ printed = <<>>
            /\ cmdPc = "end" => Count(out, "Query failed") = 1
      /\ /\ cmdPc = "end"
         /\ Fetched # {}
         /\ \A i \in Fetched : fetch[i].st = "ok"
         /\ JSONStringify(ExpectedResults).ok
         => printed # <<>>

\* C12 witness: `query -i 0` fetched the first query only and printed its
\* result.
QueryFetchesAndPrintsWitness ==
    /\ command = "query"
    /\ index = Num(0)
    /\ cmdPc = "end"
    /\ fetch[1].st = "ok"
    /\ fetch[1].v = ObjA1
    /\ Fetched = {1}
    /\ printed = <<JText(Text(ObjA1))>>

\* the handles execution p has acquired and not released
Held(p) == {ex[p].held[i] : i \in 1..Len(ex[p].held)}
\* the context of execution p is alive
CtxAlive(p) == ex[p].vm \in liveCtx

\* C13: on every exit path, an error in the middle of the setup included,
\* every handle the call created has been released when the context is torn
\* down and before the error propagates: no handle is held at vm.dispose().
NoHandleAtTeardown ==
    \A p \in Procs : ex[p].pc \in {"L164", "done"} => Held(p) = {}

\* the names vm.setProp has put on the global object of execution p
Injected(p) == DOMAIN ex[p].global
\* evalCode has been invoked by execution p, or is being invoked
AtEvaluation(p) == ex[p].pc \in {"L151", "eval"} \/ Evaluated(p)

\* C14: evaluation starts only after the whole injection: whenever evalCode
\* is invoked the global object has queryResultRaw, holding the JSON text of
\* the query results, and console, holding log; no execution evaluates with
\* one of the two only.
InjectedBeforeEvaluation ==
    \A p \in Procs :
        AtEvaluation(p) =>
            /\ {"queryResultRaw", "console"} \subseteq Injected(p)
            /\ ex[p].global["queryResultRaw"] = JText(ex[p].text)
            /\ ex[p].global["console"] = Obj(<<KV("log", Fn("log"))>>)

\* C14 witness: the script runs inside evalCode, with both names injected.
InjectedBeforeEvaluationWitness ==
    /\ ex[CmdProc].pc = "eval"
    /\ {"queryResultRaw", "console"} \subseteq Injected(CmdProc)
    /\ ex[CmdProc].global["console"] = Obj(<<KV("log", Fn("log"))>>)

\* C15: the handle evalCode gave (result.error or result.value) is released
\* right after vm.dump decoded it and before the outcome leaves
\* runProcessor, on both paths, also when vm.dump itself fails.
ResultHandleReleased ==
    \A p \in Procs :
        Evaluated(p) /\ ex[p].pc \in {"L155", "L160", "L162", "L164", "done"}
            => "result" \notin Held(p)

\* the handles a step of execution p releases
Released(p) == {h \in Held(p) : h \notin {ex'[p].held[i] : i \in 1..Len(ex'[p].held)}}
\* the handle execution p acquired last among those it holds
LastHeld(p) == ex[p].held[Len(ex[p].held)]

\* C16: within an execution the handles (data string, log function, console
\* object, result) are released in strictly nested order: whenever a handle
\* is released, no handle acquired after it is still unreleased.
ReleasedLastAcquiredFirst ==
    [][\A p \in Procs : \A h \in Released(p) : h = LastHeld(p)]_vars

\* C16 as amended: whenever a handle is released no handle acquired after it
\* is still unreleased, except for the log function handle, which is
\* released while the console object handle, acquired right after it, is
\* the only other handle held (the two are released in the order of their
\* acquisition).
ReleasedNestedButLogFn ==
    [][\A p \in Procs : \A h \in Released(p) :
          \/ h = LastHeld(p)
          \/ h = "logFn" /\ ex[p].held = <<"logFn", "consoleObj">>]_vars

\* C16 witness: logFn.dispose() has run and consoleObj.dispose() is next, the
\* console object being the one handle held.
ReleasedNestedButLogFnWitness ==
    /\ ex[CmdProc].pc = "L141"
    /\ ex[CmdProc].held = <<"consoleObj">>
    /\ CtxAlive(CmdProc)

\* the handles the statement at a position of runProcessor operates on
\* (argument of setProp or dump, or receiver of dispose)
Operands(pc) ==
    CASE pc \in {"L130", "L131"} -> {"queryResultRaw"}
      [] pc = "L138" -> {"consoleObj", "logFn"}
      [] pc \in {"L139", "L141"} -> {"consoleObj"}
      [] pc = "L140" -> {"logFn"}
      [] pc \in {"L152", "L153", "L154", "L158", "L159"} -> {"result"}
      [] OTHER -> {}
\* the positions whose statement operates on the context or on one of its
\* handles ("eval": the script runs and the log callback decodes)
SandboxOps ==
    {"L129", "L129n", "L130", "L131", "L134", "L137", "L138", "L139", "L140",
     "L141", "L143", "L151", "eval", "L152", "L153", "L154", "L155", "L158",
     "L159", "L160", "L162", "L164"}

\* C17: every operation on a handle or on the context is applied to one that
\* was acquired and is not released: no handle is used after its release,
\* released twice or released without having been acquired, no handle is
\* acquired twice, and nothing operates on the sandbox (the log callback's
\* vm.dump included) after vm.dispose().
HandlesValid ==
    \A p \in Procs :
        /\ Operands(ex[p].pc) \subseteq Held(p)
        /\ ex[p].pc \in SandboxOps => CtxAlive(p)
        /\ ex[p].pc = "done" /\ ex[p].vm # 0 => ~CtxAlive(p)
        /\ Cardinality(Held(p)) = Len(ex[p].held)
        /\ Held(p) # {} => ex[p].vm # 0

\* C17 witness: the value was decoded and result.value.dispose() is next,
\* on the handle evalCode gave, in a live context.
HandlesValidWitness ==
    /\ ex[CmdProc].pc = "L159"
    /\ ex[CmdProc].held = <<"result">>
    /\ CtxAlive(CmdProc)
    /\ ex[CmdProc].local = Num(1)

\* some argument of a console.log call of the script has no JSON form
LogsUnrepresentable(sc) ==
    \E i \in 1..Len(sc.logs) : \E j \in 1..Len(sc.logs[i]) : ContainsCycle(sc.logs[i][j])

=============================================================================
